---- MODULE Spec2Model ----
(***************************************************************************)
(* Context Tree Weighting models of ctw.go: the suffix tree with its       *)
(* update and revert, CTW, CTWReverter, FCTW and the VOM produced by       *)
(* context-tree maximization.                                              *)
(*                                                                         *)
(* Representation.                                                         *)
(*  - A float64 holding a log-probability is represented by the exact      *)
(*    rational <<n, d>> (in lowest terms) whose natural log it is: log(1)  *)
(*    = 0 is <<1, 1>>, x + y of the code is the product of the rationals,  *)
(*    logaddexp is their sum and x >= y is the order of the rationals.     *)
(*  - A *treeNode is the path of child slots that leads to it from the     *)
(*    root (slot 0 = field Right, slot 1 = field Left); the tree is the    *)
(*    map from the addresses of its attached nodes to their fields.        *)
(*  - A []int is a reference into the store arr of backing arrays, so two  *)
(*    holders of the same slice see each other's writes.                   *)
(***************************************************************************)
EXTENDS Integers, Sequences, FiniteSets, TLC

\* ---------------------------------------------------------------- bounds
MaxD == 2
MaxObs == 3
MaxBlock == 2

\* ------------------------------------------------------------- log values
RECURSIVE Gcd(_, _)
Gcd(m, n) ==
  IF n = 0 THEN m ELSE Gcd(n, m % n)

Reduce(n, d, g) ==
  <<n \div g, d \div g>>

Norm(n, d) ==
  Reduce(n, d, Gcd(n, d))

\* the float 0.0 = log(1)
Zero == <<1, 1>>

\* math.Log(n/d)
Log(n, d) == Norm(n, d)

\* x + y on log values
plus(x, y) == Norm(x[1] * y[1], x[2] * y[2])

\* x - y on log values
minus(x, y) == Norm(x[1] * y[2], x[2] * y[1])

\* x >= y on log values
geq(x, y) == x[1] * y[2] >= y[1] * x[2]

logaddexp(x, y) ==
  Norm(x[1] * y[2] + y[1] * x[2], x[2] * y[2])

\* ------------------------------------------------------------- tree nodes
Nil == << -1 >>

RightSlot == 0
LeftSlot == 1

\* &treeNode{}
NewNode ==
  [LogProb |-> Zero, A |-> 0, B |-> 0, Lktp |-> Zero, Left |-> Nil, Right |-> Nil]

RECURSIVE Attached(_, _)
Attached(h, node) ==
  {node}
    \cup (IF h[node].Left # Nil THEN Attached(h, h[node].Left) ELSE {})
    \cup (IF h[node].Right # Nil THEN Attached(h, h[node].Right) ELSE {})

\* nodes no pointer leads to any more are reclaimed by the runtime
reclaim(h) ==
  [n \in Attached(h, <<>>) |-> h[n]]

\* the estimator with the count incremented before the logarithms are taken
krichevskyTrofimov_countsFirst(n, bit) ==
  IF bit = 0
    THEN [n EXCEPT !.Lktp = minus(plus(n.Lktp, Log(2 * n.A + 3, 2)), Log(n.A + n.B + 2, 1)),
                   !.A = n.A + 1]
    ELSE [n EXCEPT !.Lktp = minus(plus(n.Lktp, Log(2 * n.B + 3, 2)), Log(n.A + n.B + 2, 1)),
                   !.B = n.B + 1]

krichevskyTrofimov(n, bit) ==
  IF bit = 0
    THEN [n EXCEPT !.Lktp = minus(plus(n.Lktp, Log(2 * n.A + 1, 2)), Log(n.A + n.B + 1, 1)),
                   !.A = n.A + 1]
    ELSE [n EXCEPT !.Lktp = minus(plus(n.Lktp, Log(2 * n.B + 1, 2)), Log(n.A + n.B + 1, 1)),
                   !.B = n.B + 1]

\* the child pointer update follows for context bit c
route(n, c) ==
  IF c = 0 THEN n.Right ELSE n.Left

\* node.Right = &treeNode{} or node.Left = &treeNode{}, for context bit c: the
\* new node gets the address of the slot it is put in
attach(h, node, c) ==
  [n \in DOMAIN h \cup {Append(node, IF c = 0 THEN RightSlot ELSE LeftSlot)} |->
     IF n = node
       THEN IF c = 0
              THEN [h[n] EXCEPT !.Right = Append(node, RightSlot)]
              ELSE [h[n] EXCEPT !.Left = Append(node, LeftSlot)]
     ELSE IF n \in DOMAIN h THEN h[n]
     ELSE NewNode]

\* lines 94-112: the loop of update from depth d on; visit is lines 110-111
\* for the child the loop has moved to
RECURSIVE descend(_, _, _, _, _, _)
RECURSIVE visit(_, _, _, _, _, _, _)
\* the step that takes the snapshot after the estimator update of the child
visit_snapshotsAfter(h, traversed, child, isNew, d, bits, bit) ==
  descend([h EXCEPT ![child] = krichevskyTrofimov(h[child], bit)],
          Append(traversed, [node |-> child,
                             state |-> krichevskyTrofimov(h[child], bit),
                             isNew |-> isNew]),
          child, d + 1, bits, bit)

visit(h, traversed, child, isNew, d, bits, bit) ==
  descend([h EXCEPT ![child] = krichevskyTrofimov(h[child], bit)],
          Append(traversed, [node |-> child, state |-> h[child], isNew |-> isNew]),
          child, d + 1, bits, bit)

\* the descent indexing the context oldest bit first, bits[d]
descend_oldestFirst(h, traversed, node, d, bits, bit) ==
  IF d >= Len(bits)
    THEN [heap |-> h, traversed |-> traversed]
  ELSE IF route(h[node], bits[d + 1]) = Nil
    THEN visit(attach(h, node, bits[d + 1]), traversed,
               route(attach(h, node, bits[d + 1])[node], bits[d + 1]),
               TRUE, d, bits, bit)
  ELSE visit(h, traversed, route(h[node], bits[d + 1]), FALSE, d, bits, bit)

descend(h, traversed, node, d, bits, bit) ==
  IF d >= Len(bits)
    THEN [heap |-> h, traversed |-> traversed]
  ELSE IF route(h[node], bits[Len(bits) - d]) = Nil
    THEN visit(attach(h, node, bits[Len(bits) - d]), traversed,
               route(attach(h, node, bits[Len(bits) - d])[node], bits[Len(bits) - d]),
               TRUE, d, bits, bit)
  ELSE visit(h, traversed, route(h[node], bits[Len(bits) - d]), FALSE, d, bits, bit)

\* the recomputation running root to leaf, each node before its child
RECURSIVE ascendFrom(_, _, _)
ascendFrom(h, traversed, j) ==
  IF j > Len(traversed)
    THEN h
    ELSE
      LET node == traversed[j].node
          n == h[node]
          lp == IF n.Left # Nil THEN h[n.Left].LogProb ELSE Zero
          rp == IF n.Right # Nil THEN h[n.Right].LogProb ELSE Zero
          lw == IF n.Left # Nil \/ n.Right # Nil
                  THEN logaddexp(plus(Log(1, 2), n.Lktp), plus(plus(Log(1, 2), lp), rp))
                  ELSE n.Lktp
      IN ascendFrom([h EXCEPT ![node].LogProb = lw], traversed, j + 1)

ascend_rootFirst(h, traversed, i) ==
  ascendFrom(h, traversed, 1)

\* lines 115-133: recompute the weighted probabilities, leaf to root
RECURSIVE ascend(_, _, _)
ascend(h, traversed, i) ==
  IF i < 1
    THEN h
    ELSE
      LET node == traversed[i].node
          n == h[node]
          lp == IF n.Left # Nil THEN h[n.Left].LogProb ELSE Zero
          rp == IF n.Right # Nil THEN h[n.Right].LogProb ELSE Zero
          lw == IF n.Left # Nil \/ n.Right # Nil
                  THEN logaddexp(plus(Log(1, 2), n.Lktp), plus(plus(Log(1, 2), lp), rp))
                  ELSE n.Lktp
      IN ascend([h EXCEPT ![node].LogProb = lw], traversed, i - 1)

\* lines 114-135 of update, after the descent down
weigh(down) ==
  [fatal |-> FALSE,
   heap |-> ascend(down.heap, down.traversed, Len(down.traversed)),
   traversed |-> down.traversed]

\* update(root, bits, bit); h is the tree root points into
update(h, bits, bit) ==
  IF bit # 0 /\ bit # 1
    THEN [fatal |-> TRUE, heap |-> h, traversed |-> <<>>]
    ELSE weigh(descend([h EXCEPT ![<<>>] = krichevskyTrofimov(h[<<>>], bit)],
                       <<[node |-> <<>>, state |-> h[<<>>], isNew |-> FALSE]>>,
                       <<>>, 0, bits, bit))

\* the loop of revert without the isNew test: the branch below the first
\* restored node is always cut
revertFrom_ignoresIsNew(h, traversed, i) ==
  LET ss == traversed[i]
      node == ss.node
      h1 == [h EXCEPT ![node].Lktp = ss.state.Lktp,
                      ![node].A = ss.state.A,
                      ![node].B = ss.state.B,
                      ![node].LogProb = ss.state.LogProb]
  IN IF i < Len(traversed)
       THEN IF traversed[i + 1].node = h1[node].Right
              THEN [h1 EXCEPT ![node].Right = Nil]
              ELSE [h1 EXCEPT ![node].Left = Nil]
       ELSE h1

\* the loop of revert from index i on
RECURSIVE revertFrom(_, _, _)
revertFrom(h, traversed, i) ==
  IF i > Len(traversed)
    THEN h
    ELSE
      LET ss == traversed[i]
          node == ss.node
          h1 == [h EXCEPT ![node].Lktp = ss.state.Lktp,
                          ![node].A = ss.state.A,
                          ![node].B = ss.state.B,
                          ![node].LogProb = ss.state.LogProb]
      IN IF i < Len(traversed) /\ traversed[i + 1].isNew
           THEN IF traversed[i + 1].node = h1[node].Right
                  THEN [h1 EXCEPT ![node].Right = Nil]
                  ELSE [h1 EXCEPT ![node].Left = Nil]
           ELSE revertFrom(h1, traversed, i + 1)

\* revert without the release of the newly allocated branch
RECURSIVE restoreAll(_, _, _)
restoreAll(h, traversed, i) ==
  IF i > Len(traversed)
    THEN h
    ELSE
      LET ss == traversed[i]
      IN restoreAll([h EXCEPT ![ss.node].Lktp = ss.state.Lktp,
                              ![ss.node].A = ss.state.A,
                              ![ss.node].B = ss.state.B,
                              ![ss.node].LogProb = ss.state.LogProb],
                    traversed, i + 1)

revert_keepsBranch(h, traversed) ==
  reclaim(restoreAll(h, traversed, 1))

revert(h, traversed) ==
  reclaim(revertFrom(h, traversed, 1))

\* -------------------------------------------------------------------- CTW
\* model.Bits[i-1] = model.Bits[i]; model.Bits[len-1] = bit
shiftLeft(bits, bit) ==
  [i \in 1..Len(bits) |-> IF i < Len(bits) THEN bits[i + 1] ELSE bit]

\* the shift back that leaves Bits[0] as it is
shiftRight_keepsFirst(bits, b0) ==
  [i \in 1..Len(bits) |-> IF i > 1 THEN bits[i - 1] ELSE bits[1]]

\* cr.model.Bits[i] = cr.model.Bits[i-1]; cr.model.Bits[0] = b0
shiftRight(bits, b0) ==
  [i \in 1..Len(bits) |-> IF i > 1 THEN bits[i - 1] ELSE b0]

\* NewCTW(bits): the model keeps the caller's slice, here the array named a
NewCTW(a) ==
  [Bits |-> a, Root |-> [n \in {<<>>} |-> NewNode]]

\* the value CTW.Prob0 and FCTW.Prob0 return for the tree h with context bits:
\* math.Exp(after - before), the probability the difference is the log of
prob0(h, bits) ==
  LET before == h[<<>>].LogProb
      after == update(h, bits, 0).heap[<<>>].LogProb
  IN minus(after, before)

\* the tree CTW.Prob0 and FCTW.Prob0 leave behind
reverted(traversal) ==
  revert(traversal.heap, traversal.traversed)

afterProb0(h, bits) ==
  reverted(update(h, bits, 0))

\* lines 186-190 of CTW.observe, after the update that returned traversal
shifted(m, store, bit, traversal) ==
  IF traversal.fatal
    THEN [status |-> "fatal", Root |-> m.Root, arr |-> store, traversal |-> <<>>]
  ELSE IF Len(store[m.Bits]) = 0
    THEN [status |-> "panic", Root |-> traversal.heap, arr |-> store, traversal |-> <<>>]
  ELSE [status |-> "ok", Root |-> traversal.heap,
        arr |-> [store EXCEPT ![m.Bits] = shiftLeft(store[m.Bits], bit)],
        traversal |-> traversal.traversed]

\* CTW.observe with the window shifted before the tree is updated
observe_shiftsFirst(m, store, bit) ==
  shifted(m, store, bit, update(m.Root, shiftLeft(store[m.Bits], bit), bit))

\* CTW.observe on the model m, with the backing arrays in store
observe(m, store, bit) ==
  shifted(m, store, bit, update(m.Root, store[m.Bits], bit))

\* ------------------------------------------------------------------- FCTW
\* NewFCTW that starts the position counter at 0
NewFCTW_indexZero(block_len, a, depth) ==
  [Trees |-> [i \in 1..block_len |-> NewCTW(a)],
   Block_len |-> block_len,
   Index |-> 0]

\* NewFCTW(block_len, bits): every tree is NewCTW(bits), the same slice
NewFCTW(block_len, a, depth) ==
  [Trees |-> [i \in 1..block_len |-> NewCTW(a)],
   Block_len |-> block_len,
   Index |-> depth % block_len]

\* the loop of FCTW.Observe from tree i on (trees are numbered from 1 here);
\* next is the loop after trees[i].observe has returned r
RECURSIVE observeTrees(_, _, _, _)
RECURSIVE next(_, _, _, _)
next(trees, r, bit, i) ==
  IF r.status # "ok"
    THEN [status |-> r.status, Trees |-> [trees EXCEPT ![i].Root = r.Root], arr |-> r.arr]
    ELSE observeTrees([trees EXCEPT ![i].Root = r.Root], r.arr, bit, i + 1)

observeTrees(trees, store, bit, i) ==
  IF i > Len(trees)
    THEN [status |-> "ok", Trees |-> trees, arr |-> store]
    ELSE next(trees, observe(trees[i], store, bit), bit, i)

\* -------------------------------------------------------------------- VOM
\* a *VOMNode is <<>> when nil and <<node>> otherwise
VOMLeaf(condProb0, maxLogProb) ==
  [Leaf |-> TRUE, CondProb0 |-> condProb0, MaxLogProb |-> maxLogProb,
   Child0 |-> <<>>, Child1 |-> <<>>]

DefaultLeaf == VOMLeaf(<<1, 2>>, Zero)

\* (a + 0.5) / (a + b + 1.0)
ktp(n) ==
  Norm(2 * n.A + 1, 2 * (n.A + n.B + 1))

\* mlp, mrp: the MaxLogProb of a converted child, 0.0 when there is none
maxLogProb(childVOM) ==
  IF childVOM = <<>> THEN Zero ELSE childVOM[1].MaxLogProb

\* the child as converted, with no default leaf put in for an absent one
orDefault_keepsNil(childVOM) ==
  childVOM

orDefault(childVOM) ==
  IF childVOM = <<>> THEN <<DefaultLeaf>> ELSE childVOM

\* maximize with the children in the order Left, Right
maximize_swapped(n, LeftVOM, RightVOM) ==
  IF geq(n.Lktp, plus(maxLogProb(LeftVOM), maxLogProb(RightVOM)))
    THEN VOMLeaf(ktp(n), n.Lktp)
    ELSE [Leaf |-> FALSE,
          CondProb0 |-> << -1, 1 >>,
          MaxLogProb |-> plus(maxLogProb(LeftVOM), maxLogProb(RightVOM)),
          Child0 |-> orDefault(LeftVOM),
          Child1 |-> orDefault(RightVOM)]

\* lines 346-382 of ToVOMNode, with the children converted
maximize(n, LeftVOM, RightVOM) ==
  IF geq(n.Lktp, plus(maxLogProb(LeftVOM), maxLogProb(RightVOM)))
    THEN VOMLeaf(ktp(n), n.Lktp)
    ELSE [Leaf |-> FALSE,
          CondProb0 |-> << -1, 1 >>,
          MaxLogProb |-> plus(maxLogProb(LeftVOM), maxLogProb(RightVOM)),
          Child0 |-> orDefault(RightVOM),
          Child1 |-> orDefault(LeftVOM)]

\* ToVOMNode that treats a node without children like any other node
RECURSIVE ToVOMNode_noTerminal(_, _)
ToVOMNode_noTerminal(h, node) ==
  maximize(h[node],
    IF h[node].Left # Nil THEN <<ToVOMNode_noTerminal(h, h[node].Left)>> ELSE <<>>,
    IF h[node].Right # Nil THEN <<ToVOMNode_noTerminal(h, h[node].Right)>> ELSE <<>>)

RECURSIVE ToVOMNode(_, _)
ToVOMNode(h, node) ==
  IF h[node].Left = Nil /\ h[node].Right = Nil
    THEN VOMLeaf(ktp(h[node]), h[node].Lktp)
    ELSE maximize(h[node],
           IF h[node].Left # Nil THEN <<ToVOMNode(h, h[node].Left)>> ELSE <<>>,
           IF h[node].Right # Nil THEN <<ToVOMNode(h, h[node].Right)>> ELSE <<>>)

\* the loop of VOM.Prob0 from depth d on; currNode is a *VOMNode
RECURSIVE vomDescend(_, _, _)
vomDescend(currNode, bits, d) ==
  IF currNode = <<>>
    THEN [status |-> "panic", value |-> <<0, 1>>]
  ELSE IF d >= Len(bits)
    THEN [status |-> "ok", value |-> currNode[1].CondProb0]
  ELSE IF currNode[1].Leaf
    THEN [status |-> "ok", value |-> currNode[1].CondProb0]
  ELSE IF bits[Len(bits) - d] = 0
    THEN vomDescend(currNode[1].Child0, bits, d + 1)
  ELSE vomDescend(currNode[1].Child1, bits, d + 1)

\* ------------------------------------------------------------------ state
VARIABLES
  kind,     \* the program that runs: "CTW" (a CTW and its CTWReverter), "FCTW",
            \* or "VOM" (a CTW is trained and converted by ToVOM, as train/main.go does)
  status,   \* "ok", or how the process ended: "fatal" (log.Fatalf), "panic"
  op,       \* the last call
  arg,      \* its bit argument
  ret,      \* the value the last Prob0 returned
  arr,      \* the backing arrays of the []int slices, by name
  model,    \* the *CTW
  cr,       \* the *CTWReverter wrapping model
  fctw,     \* the *FCTW
  vom,      \* the last *VOM ToVOM returned: <<>> or <<VOM>>
  trav,     \* the traversal the last CTW.observe returned
  stream,   \* initial context followed by the bits observed and not unobserved
  saved,    \* the wrapped model as it was before each pending CTWReverter.Observe
  peak,     \* the most frames the CTWReverter held since it last held none
  vstream,  \* the context ToVOM copied followed by the bits the VOM observed
  ref       \* a standalone CTW given the bits the FCTW is given

vars == <<kind, status, op, arg, ret, arr, model, cr, fctw, vom, trav, stream, saved, peak, vstream, ref>>

Bits == {0, 1}

\* the bit arguments a caller passes: the two bits and an invalid value
Args == {0, 1, 2}

NoRet == <<0, 1>>

NoFCTW == [Trees |-> <<>>, Block_len |-> 0, Index |-> 0]

NewCTWReverter == [bits |-> <<>>, traversals |-> <<>>]

Depth == Len(arr["ctx"])

\* the Observe calls made so far and not unobserved, on any model
Calls == (Len(stream) - Depth) + (IF vom = <<>> THEN 0 ELSE Len(vstream) - Depth)

Init ==
  \E k \in {"CTW", "FCTW", "VOM"}, depth \in 0..MaxD, block_len \in 1..MaxBlock :
    \E bits \in [1..depth -> Bits] :
      /\ kind = k
      /\ status = "ok"
      /\ op = IF k = "FCTW" THEN "NewFCTW" ELSE "NewCTW"
      /\ arg = 0
      /\ ret = NoRet
      /\ arr = [a \in {"ctx"} |-> bits]
      /\ model = NewCTW("ctx")
      /\ cr = NewCTWReverter
      /\ fctw = IF k = "FCTW" THEN NewFCTW(block_len, "ctx", depth) ELSE NoFCTW
      /\ vom = <<>>
      /\ trav = <<>>
      /\ stream = bits
      /\ saved = <<>>
      /\ peak = 0
      /\ vstream = <<>>
      /\ ref = [Bits |-> "ref", Root |-> NewCTW("ref").Root, arr |-> [a \in {"ref"} |-> bits]]

CTW_Prob0 ==
  /\ kind \in {"CTW", "VOM"} /\ status = "ok"
  /\ op' = "CTW.Prob0"
  /\ arg' = 0
  /\ ret' = prob0(model.Root, arr[model.Bits])
  /\ model' = [model EXCEPT !.Root = afterProb0(model.Root, arr[model.Bits])]
  /\ UNCHANGED <<kind, status, arr, cr, fctw, vom, trav, stream, saved, peak, vstream, ref>>

CTW_Observe(bit) ==
  /\ kind \in {"CTW", "VOM"} /\ status = "ok"
  /\ cr.traversals = <<>>
  /\ Calls < MaxObs
  /\ \E r \in {observe(model, arr, bit)} :
        /\ status' = r.status
        /\ model' = [model EXCEPT !.Root = r.Root]
        /\ arr' = r.arr
        /\ trav' = r.traversal
        /\ stream' = IF r.status = "ok" THEN Append(stream, bit) ELSE stream
  /\ op' = "CTW.Observe"
  /\ arg' = bit
  /\ ret' = NoRet
  /\ UNCHANGED <<kind, cr, fctw, vom, saved, peak, vstream, ref>>

CTWReverter_Prob0 ==
  /\ kind = "CTW" /\ status = "ok"
  /\ op' = "CTWReverter.Prob0"
  /\ arg' = 0
  /\ ret' = prob0(model.Root, arr[model.Bits])
  /\ model' = [model EXCEPT !.Root = afterProb0(model.Root, arr[model.Bits])]
  /\ UNCHANGED <<kind, status, arr, cr, fctw, vom, trav, stream, saved, peak, vstream, ref>>

\* Observe that saves the newest context bit instead of the oldest
CTWReverter_Observe_savesLast(bit) ==
  /\ kind = "CTW" /\ status = "ok"
  /\ Calls < MaxObs
  /\ op' = "CTWReverter.Observe"
  /\ arg' = bit
  /\ ret' = NoRet
  /\ IF Len(arr[model.Bits]) = 0
       THEN /\ status' = "panic"
            /\ UNCHANGED <<arr, model, cr, trav, stream, saved, peak>>
       ELSE
         \E bits1 \in {Append(cr.bits, arr[model.Bits][Len(arr[model.Bits])])},
            r \in {observe(model, arr, bit)} :
            /\ status' = r.status
            /\ model' = [model EXCEPT !.Root = r.Root]
            /\ arr' = r.arr
            /\ trav' = r.traversal
            /\ cr' = IF r.status = "ok"
                       THEN [bits |-> bits1, traversals |-> Append(cr.traversals, r.traversal)]
                       ELSE [cr EXCEPT !.bits = bits1]
            /\ stream' = IF r.status = "ok" THEN Append(stream, bit) ELSE stream
            /\ saved' = IF r.status = "ok"
                          THEN Append(saved, [Root |-> model.Root, Bits |-> arr[model.Bits]])
                          ELSE saved
            /\ peak' = IF r.status # "ok" THEN peak
                       ELSE IF cr.traversals = <<>> THEN 1
                       ELSE IF Len(cr.traversals) + 1 > peak THEN Len(cr.traversals) + 1
                       ELSE peak
  /\ UNCHANGED <<kind, fctw, vom, vstream, ref>>

CTWReverter_Observe(bit) ==
  /\ kind = "CTW" /\ status = "ok"
  /\ Calls < MaxObs
  /\ op' = "CTWReverter.Observe"
  /\ arg' = bit
  /\ ret' = NoRet
  /\ IF Len(arr[model.Bits]) = 0
       THEN /\ status' = "panic"
            /\ UNCHANGED <<arr, model, cr, trav, stream, saved, peak>>
       ELSE
         \E bits1 \in {Append(cr.bits, arr[model.Bits][1])}, r \in {observe(model, arr, bit)} :
            /\ status' = r.status
            /\ model' = [model EXCEPT !.Root = r.Root]
            /\ arr' = r.arr
            /\ trav' = r.traversal
            /\ cr' = IF r.status = "ok"
                       THEN [bits |-> bits1, traversals |-> Append(cr.traversals, r.traversal)]
                       ELSE [cr EXCEPT !.bits = bits1]
            /\ stream' = IF r.status = "ok" THEN Append(stream, bit) ELSE stream
            /\ saved' = IF r.status = "ok"
                          THEN Append(saved, [Root |-> model.Root, Bits |-> arr[model.Bits]])
                          ELSE saved
            /\ peak' = IF r.status # "ok" THEN peak
                       ELSE IF cr.traversals = <<>> THEN 1
                       ELSE IF Len(cr.traversals) + 1 > peak THEN Len(cr.traversals) + 1
                       ELSE peak
  /\ UNCHANGED <<kind, fctw, vom, vstream, ref>>

\* Unobserve that returns when there is nothing to undo
CTWReverter_Unobserve_returns ==
  /\ kind = "CTW" /\ status = "ok"
  /\ op' = "CTWReverter.Unobserve"
  /\ arg' = 0
  /\ ret' = NoRet
  /\ IF Len(cr.traversals) = 0
       THEN /\ status' = "ok"
            /\ UNCHANGED <<arr, model, cr, trav, stream, saved, peak>>
       ELSE
         LET tvIdx == Len(cr.traversals)
             btIdx == Len(cr.bits)
         IN /\ status' = "ok"
            /\ model' = [model EXCEPT !.Root = revert(model.Root, cr.traversals[tvIdx])]
            /\ arr' = [arr EXCEPT ![model.Bits] = shiftRight(arr[model.Bits], cr.bits[btIdx])]
            /\ cr' = [bits |-> SubSeq(cr.bits, 1, btIdx - 1),
                      traversals |-> SubSeq(cr.traversals, 1, tvIdx - 1)]
            /\ stream' = SubSeq(stream, 1, Len(stream) - 1)
            /\ saved' = SubSeq(saved, 1, Len(saved) - 1)
            /\ UNCHANGED <<trav, peak>>
  /\ UNCHANGED <<kind, fctw, vom, vstream, ref>>

CTWReverter_Unobserve ==
  /\ kind = "CTW" /\ status = "ok"
  /\ op' = "CTWReverter.Unobserve"
  /\ arg' = 0
  /\ ret' = NoRet
  /\ IF Len(cr.traversals) = 0
       THEN /\ status' = "panic"
            /\ UNCHANGED <<arr, model, cr, trav, stream, saved, peak>>
       ELSE
         LET tvIdx == Len(cr.traversals)
             btIdx == Len(cr.bits)
         IN /\ status' = "ok"
            /\ model' = [model EXCEPT !.Root = revert(model.Root, cr.traversals[tvIdx])]
            /\ arr' = [arr EXCEPT ![model.Bits] = shiftRight(arr[model.Bits], cr.bits[btIdx])]
            /\ cr' = [bits |-> SubSeq(cr.bits, 1, btIdx - 1),
                      traversals |-> SubSeq(cr.traversals, 1, tvIdx - 1)]
            /\ stream' = SubSeq(stream, 1, Len(stream) - 1)
            /\ saved' = SubSeq(saved, 1, Len(saved) - 1)
            /\ UNCHANGED <<trav, peak>>
  /\ UNCHANGED <<kind, fctw, vom, vstream, ref>>

FCTW_Prob0 ==
  /\ kind = "FCTW" /\ status = "ok"
  /\ op' = "FCTW.Prob0"
  /\ arg' = 0
  /\ LET tree == fctw.Trees[fctw.Index + 1]
     IN /\ ret' = prob0(tree.Root, arr[tree.Bits])
        /\ fctw' = [fctw EXCEPT !.Trees[fctw.Index + 1].Root = afterProb0(tree.Root, arr[tree.Bits])]
  /\ UNCHANGED <<kind, status, arr, model, cr, vom, trav, stream, saved, peak, vstream, ref>>

FCTW_Observe(bit) ==
  /\ kind = "FCTW" /\ status = "ok"
  /\ Calls < MaxObs
  /\ op' = "FCTW.Observe"
  /\ arg' = bit
  /\ ret' = NoRet
  /\ \E r \in {observeTrees(fctw.Trees, arr, bit, 1)}, s \in {observe(ref, ref.arr, bit)} :
        /\ status' = r.status
        /\ arr' = r.arr
        /\ fctw' = [fctw EXCEPT !.Trees = r.Trees,
                                !.Index = IF r.status = "ok"
                                            THEN (fctw.Index + 1) % fctw.Block_len
                                            ELSE fctw.Index]
        /\ stream' = IF r.status = "ok" THEN Append(stream, bit) ELSE stream
        /\ ref' = IF r.status = "ok"
                    THEN [ref EXCEPT !.Root = s.Root, !.arr = s.arr]
                    ELSE ref
  /\ UNCHANGED <<kind, model, cr, vom, trav, saved, peak, vstream>>

\* ToVOM without the copy: the VOM keeps the CTW's slice
ToVOM_sharesBits ==
  /\ kind = "VOM" /\ status = "ok"
  /\ vom = <<>>
  /\ op' = "ToVOM"
  /\ arg' = 0
  /\ ret' = NoRet
  /\ vom' = <<[Root |-> <<ToVOMNode(model.Root, <<>>)>>, Bits |-> model.Bits]>>
  /\ vstream' = arr[model.Bits]
  /\ UNCHANGED <<kind, status, arr, model, cr, fctw, trav, stream, saved, peak, ref>>

\* ToVOM(model): the VOM gets its own copy of the context bits
ToVOM ==
  /\ kind = "VOM" /\ status = "ok"
  /\ vom = <<>>
  /\ op' = "ToVOM"
  /\ arg' = 0
  /\ ret' = NoRet
  /\ vom' = <<[Root |-> <<ToVOMNode(model.Root, <<>>)>>, Bits |-> "vom"]>>
  /\ arr' = [a \in DOMAIN arr \cup {"vom"} |-> IF a = "vom" THEN arr[model.Bits] ELSE arr[a]]
  /\ vstream' = arr[model.Bits]
  /\ UNCHANGED <<kind, status, model, cr, fctw, trav, stream, saved, peak, ref>>

VOM_Prob0 ==
  /\ kind = "VOM" /\ status = "ok"
  /\ vom # <<>>
  /\ op' = "VOM.Prob0"
  /\ arg' = 0
  /\ \E r \in {vomDescend(vom[1].Root, arr[vom[1].Bits], 0)} :
        /\ status' = r.status
        /\ ret' = r.value
  /\ UNCHANGED <<kind, arr, model, cr, fctw, vom, trav, stream, saved, peak, vstream, ref>>

VOM_Observe(bit) ==
  /\ kind = "VOM" /\ status = "ok"
  /\ vom # <<>>
  /\ Calls < MaxObs
  /\ op' = "VOM.Observe"
  /\ arg' = bit
  /\ ret' = NoRet
  /\ IF Len(arr[vom[1].Bits]) = 0
       THEN /\ status' = "panic"
            /\ UNCHANGED <<arr, vstream>>
       ELSE /\ status' = "ok"
            /\ arr' = [arr EXCEPT ![vom[1].Bits] = shiftLeft(arr[vom[1].Bits], bit)]
            /\ vstream' = Append(vstream, bit)
  /\ UNCHANGED <<kind, model, cr, fctw, vom, trav, stream, saved, peak, ref>>

Next ==
  \/ CTW_Prob0
  \/ \E bit \in Args : CTW_Observe(bit)
  \/ CTWReverter_Prob0
  \/ \E bit \in Args : CTWReverter_Observe(bit)
  \/ CTWReverter_Unobserve
  \/ FCTW_Prob0
  \/ \E bit \in Args : FCTW_Observe(bit)
  \/ ToVOM
  \/ VOM_Prob0
  \/ \E bit \in Args : VOM_Observe(bit)

Spec == Init /\ [][Next]_vars

\* ----------------------------------------------------------------- claims
Prob0Ops == {"CTW.Prob0", "CTWReverter.Prob0", "FCTW.Prob0", "VOM.Prob0"}

ObserveOps == {"CTW.Observe", "CTWReverter.Observe", "FCTW.Observe", "VOM.Observe"}

\* the last n elements of s
LastN(s, n) == SubSeq(s, Len(s) - n + 1, Len(s))

\* the speculative update of Prob0 on tree h allocates a node
Allocates(h, bits) ==
  \E i \in 1..(Len(bits) + 1) : update(h, bits, 0).traversed[i].isNew

C3_ObserveShiftsWindow ==
  [][(op' = "CTW.Observe" /\ status' = "ok") =>
       LET old == arr[model.Bits]
           new == arr'[model'.Bits]
           D == Len(old)
       IN /\ Len(new) = D
          /\ \A i \in 1..(D - 1) : new[i] = old[i + 1]
          /\ new[D] = arg'
          /\ new = LastN(stream', D)
          /\ Len(trav') = D + 1
          /\ \A d \in 1..D :
               trav'[d + 1].node =
                 Append(trav'[d].node, IF old[D + 1 - d] = 0 THEN RightSlot ELSE LeftSlot)]_vars

\* an Observe of a bit that differs from the bits of the window before it
C3_Witness ==
  /\ op = "CTW.Observe"
  /\ status = "ok"
  /\ Depth = 2
  /\ Len(stream) >= Depth + 2
  /\ arr[model.Bits][1] # arr[model.Bits][2]

\* C4: one FCTW.Observe(bit) advances the context window the trees share by
\* one bit, so every tree's context bits are the D most recent bits of the
\* initial context followed by the observed stream.
C4_FCTWWindowAdvancesOneBit ==
  (kind = "FCTW" /\ status = "ok") =>
    \A i \in 1..Len(fctw.Trees) :
      arr[fctw.Trees[i].Bits] = LastN(stream, Depth)

\* C5: after any sequence of FCTW.Observe calls every tree of the FCTW has
\* the nodes, counts and context bits of a standalone CTW built with the same
\* initial context and given the same bits through CTW.Observe.
C5_FCTWTreesLikeStandalone ==
  (kind = "FCTW" /\ status = "ok") =>
    \A i \in 1..Len(fctw.Trees) :
      /\ fctw.Trees[i].Root = ref.Root
      /\ arr[fctw.Trees[i].Bits] = ref.arr[ref.Bits]

\* C6: the position counter of an FCTW is (D + n) mod B after n Observe
\* calls (stream holds the D initial bits and the n observed ones), so D mod B
\* after NewFCTW, and lies in [0, B); FCTW.Prob0 returns the prediction of
\* trees[index] and leaves index as it is.
C6_FCTWIndex ==
  /\ [](kind = "FCTW" =>
          /\ fctw.Index = Len(stream) % fctw.Block_len
          /\ 0 <= fctw.Index
          /\ fctw.Index < fctw.Block_len)
  /\ [][op' = "FCTW.Prob0" =>
          /\ fctw'.Index = fctw.Index
          /\ ret' = prob0(fctw.Trees[fctw.Index + 1].Root,
                          arr[fctw.Trees[fctw.Index + 1].Bits])]_vars

\* an FCTW of two trees whose counter has wrapped around, then a Prob0
C6_Witness ==
  /\ op = "FCTW.Prob0"
  /\ fctw.Block_len = 2
  /\ Depth = 1
  /\ Len(stream) - Depth = 3
  /\ fctw.Index = 0

\* C7: Observe(bit) with bit outside {0, 1} ends the process, on every
\* model, before any node, pointer or context bit has been modified.
C7_InvalidBitAborts ==
  [][(op' \in ObserveOps /\ arg' \notin Bits) =>
       /\ status' # "ok"
       /\ model' = model
       /\ arr' = arr
       /\ fctw' = fctw
       /\ vom' = vom]_vars

\* C8: CTWReverter.Unobserve with no unmatched Observe panics, and has not
\* changed the tree or the context bits of the wrapped model.
C8_UnobserveEmptyPanics ==
  [][(op' = "CTWReverter.Unobserve" /\ cr.traversals = <<>>) =>
       /\ status' = "panic"
       /\ model' = model
       /\ arr' = arr
       /\ cr' = cr]_vars

\* an Unobserve without a frame on a trained model, directly or after the
\* frames have been undone
C8_Witness ==
  /\ op = "CTWReverter.Unobserve"
  /\ status = "panic"
  /\ Cardinality(DOMAIN model.Root) > 1

\* the conversion of the node the pointer ptr of tree h leads to
converted(h, ptr) ==
  IF ptr = Nil THEN DefaultLeaf ELSE ToVOMNode(h, ptr)

\* v, converted from the node of tree h, has below every internal node the
\* conversions of the children update takes for context bits 0 and 1
RECURSIVE Oriented(_, _, _)
Oriented(v, h, node) ==
  \/ v.Leaf
  \/ /\ v.Child0 = <<converted(h, route(h[node], 0))>>
     /\ v.Child1 = <<converted(h, route(h[node], 1))>>
     /\ \A c \in Bits :
          route(h[node], c) # Nil =>
            Oriented(IF c = 0 THEN v.Child0[1] ELSE v.Child1[1], h, route(h[node], c))

\* the prediction of the first leaf among the conversions of the nodes that
\* update visits in tree h for the context bits, from depth d on
RECURSIVE alongUpdate(_, _, _, _)
RECURSIVE firstLeaf(_, _, _, _, _)
firstLeaf(v, h, ptr, bits, d) ==
  IF v.Leaf \/ d >= Len(bits)
    THEN v.CondProb0
    ELSE alongUpdate(h, route(h[ptr], bits[Len(bits) - d]), bits, d + 1)

alongUpdate(h, ptr, bits, d) ==
  firstLeaf(converted(h, ptr), h, ptr, bits, d)

\* C9: in the VOM ToVOM produces, Child0 of an internal node is the
\* conversion of the child update descends into for context bit 0 and Child1
\* the one for context bit 1 (the default leaf when that child is absent), so
\* for every context VOM.Prob0 follows the path update follows.
C9_VOMOrientation ==
  op = "ToVOM" =>
    /\ Oriented(vom[1].Root[1], model.Root, <<>>)
    /\ \A bits \in [1..Depth -> Bits] :
         vomDescend(vom[1].Root, bits, 0) =
           [status |-> "ok", value |-> alongUpdate(model.Root, <<>>, bits, 0)]

\* a VOM whose root routes to two different subtrees, one of them internal
C9_Witness ==
  /\ op = "ToVOM"
  /\ ~vom[1].Root[1].Leaf
  /\ vom[1].Root[1].Child0 # vom[1].Root[1].Child1
  /\ \/ ~vom[1].Root[1].Child0[1].Leaf
     \/ ~vom[1].Root[1].Child1[1].Leaf

\* m0 + m1 for the node of tree h: the MaxLogProb of the conversions of its
\* children, an absent child contributing 0
childrenMax(h, node) ==
  plus(IF h[node].Right # Nil THEN ToVOMNode(h, h[node].Right).MaxLogProb ELSE Zero,
       IF h[node].Left # Nil THEN ToVOMNode(h, h[node].Left).MaxLogProb ELSE Zero)

\* ToVOMNode gives the node MaxLogProb = max(l_kt, m0 + m1) and makes it a
\* leaf exactly when l_kt >= m0 + m1
Dominates(h, node) ==
  \E v \in {ToVOMNode(h, node)}, m \in {childrenMax(h, node)} :
    /\ v.MaxLogProb = IF geq(h[node].Lktp, m) THEN h[node].Lktp ELSE m
    /\ v.Leaf <=> geq(h[node].Lktp, m)

Childless(h, node) ==
  h[node].Left = Nil /\ h[node].Right = Nil

\* C10 as claimed: CTM dominance for every node, those without children
\* included
C10_DominanceEveryNode ==
  op = "ToVOM" =>
    \A node \in DOMAIN model.Root : Dominates(model.Root, node)

\* C10: CTM dominance holds for every node with at least one child (one
\* absent child contributing 0); a node without children is converted to a
\* leaf with MaxLogProb = l_kt and CondProb0 = (a + 1/2) / (a + b + 1).
C10_DominanceInnerNodes ==
  op = "ToVOM" =>
    \A node \in DOMAIN model.Root :
      IF Childless(model.Root, node)
        THEN ToVOMNode(model.Root, node) =
               VOMLeaf(Norm(2 * model.Root[node].A + 1,
                            2 * (model.Root[node].A + model.Root[node].B + 1)),
                       model.Root[node].Lktp)
        ELSE Dominates(model.Root, node)

\* a conversion with a node of one child, a node that splits, a node with
\* children that collapses and a node without children that has counts
C10_Witness ==
  /\ op = "ToVOM"
  /\ \E node \in DOMAIN model.Root :
       (model.Root[node].Left = Nil) # (model.Root[node].Right = Nil)
  /\ \E node \in DOMAIN model.Root : ~ToVOMNode(model.Root, node).Leaf
  /\ \E node \in DOMAIN model.Root :
       ~Childless(model.Root, node) /\ ToVOMNode(model.Root, node).Leaf
  /\ \E node \in DOMAIN model.Root :
       Childless(model.Root, node) /\ model.Root[node].A + model.Root[node].B > 0


\* ---------------------------------------------------------------------
\* C11: the VOM is frozen and independent of its source.  VOM.Observe
\* changes only the VOM's own context window (shifted left by one, the bit
\* appended) and no VOM node; ToVOM changes nothing in the source CTW; after
\* ToVOM, VOM.Observe leaves the CTW's context bits and tree alone, and
\* CTW.Observe and CTW.Prob0 leave the VOM's context bits and nodes alone.
VOMObserveStep ==
  /\ vom' = vom
  /\ model' = model
  /\ arr'[model.Bits] = arr[model.Bits]
  /\ arr'[vom[1].Bits] = Tail(arr[vom[1].Bits]) \o <<arg'>>

ToVOMStep ==
  /\ model' = model
  /\ arr'[model.Bits] = arr[model.Bits]
  /\ arr'[vom'[1].Bits] = arr[model.Bits]

CTWStepAfterToVOM ==
  /\ vom' = vom
  /\ arr'[vom[1].Bits] = arr[vom[1].Bits]

C11_VOMFrozenAndIndependent ==
  [][/\ (op' = "VOM.Observe" /\ status' = "ok") => VOMObserveStep
     /\ (op' = "ToVOM") => ToVOMStep
     /\ (op' \in {"CTW.Observe", "CTW.Prob0"} /\ vom # <<>>) => CTWStepAfterToVOM]_vars

\* after ToVOM both the VOM and then the CTW observed bits, and their
\* windows differ
C11_Witness ==
  /\ vom # <<>>
  /\ status = "ok"
  /\ op = "CTW.Observe"
  /\ Len(vstream) > Depth
  /\ Len(stream) > Depth + 1
  /\ arr[vom[1].Bits] # arr[model.Bits]


\* ---------------------------------------------------------------------
\* C12: normalization.  In every CTW state reachable by Observe calls, the
\* ratio Prob0 returns (root weighted probability after a speculative update
\* with bit 0 over the one before) and the same ratio for a speculative bit 1
\* sum to 1, and Prob0 lies strictly between 0 and 1.  Log values are exact
\* here, so the sum is the exact one that the float64 results approximate.
speculated(h, bits, bit) ==
  minus(update(h, bits, bit).heap[<<>>].LogProb, h[<<>>].LogProb)

StrictlyBetween0And1(p) ==
  /\ p[1] > 0
  /\ p[2] > 0
  /\ p[1] < p[2]

observedUnder(t, s) ==
  \A j \in 1..Len(s) : stream[t - j] = s[j]

matchCount(s, bit) ==
  Cardinality({t \in (Depth + 1)..Len(stream) : stream[t] = bit /\ observedUnder(t, s)})

\* the node the context bits s lead to from node, Nil if none is allocated
RECURSIVE ctxNode(_, _, _, _)
ctxNode(h, node, s, j) ==
  IF j > Len(s) THEN node
  ELSE IF route(h[node], s[j]) = Nil THEN Nil
  ELSE ctxNode(h, route(h[node], s[j]), s, j + 1)

countA(h, ptr) == IF ptr = Nil THEN 0 ELSE h[ptr].A

countB(h, ptr) == IF ptr = Nil THEN 0 ELSE h[ptr].B

CountsMatch(h, ptr, s) ==
  /\ countA(h, ptr) = matchCount(s, 0)
  /\ countB(h, ptr) = matchCount(s, 1)
  /\ (ptr # Nil /\ Len(s) < Depth) =>
        /\ h[ptr].A = countA(h, h[ptr].Right) + countA(h, h[ptr].Left)
        /\ h[ptr].B = countB(h, h[ptr].Right) + countB(h, h[ptr].Left)

C13_CountsAreContextMatches ==
  (kind \in {"CTW", "VOM"} /\ status = "ok") =>
    /\ model.Root[<<>>].A + model.Root[<<>>].B = Len(stream) - Depth
    /\ \A d \in 0..Depth : \A s \in [1..d -> Bits] :
          CountsMatch(model.Root, ctxNode(model.Root, <<>>, s, 1), s)

\* a depth-D node has seen both a 0 and a 1 under its context
C13_Witness ==
  /\ kind \in {"CTW", "VOM"} /\ status = "ok"
  /\ op = "CTW.Observe"
  /\ Depth = MaxD
  /\ \E n \in DOMAIN model.Root :
        /\ Len(n) = Depth
        /\ model.Root[n].A >= 1
        /\ model.Root[n].B >= 1


\* ---------------------------------------------------------------------
\* C14: shape of the snapshot list.  Every update on a tree with context
\* length D returns exactly D + 1 snapshots, ordered root to leaf along the
\* context; the first is never isNew; each holds the node's (a, b, l_kt,
\* l_w) from before this update (all zero for a node this update
\* allocated); and the isNew snapshots form a contiguous tail.  Checked for
\* the update of either bit from every state reachable through Observe,
\* Prob0 and the Reverter's Observe and Unobserve, and for the lists the
\* program keeps.
SameFields(state, n) ==
  /\ state.A = n.A
  /\ state.B = n.B
  /\ state.Lktp = n.Lktp
  /\ state.LogProb = n.LogProb

\* t was returned by an update of the tree h, that left the tree after
SnapshotShape(h, bits, after, t) ==
  /\ Len(t) = Len(bits) + 1
  /\ t[1].node = <<>>
  /\ ~t[1].isNew
  /\ \A i \in 1..(Len(t) - 1) :
        t[i + 1].node = route(after[t[i].node], bits[Len(bits) - i + 1])
  /\ \A i \in 1..Len(t) :
        IF t[i].isNew
          THEN t[i].node \notin DOMAIN h /\ SameFields(t[i].state, NewNode)
          ELSE t[i].node \in DOMAIN h /\ SameFields(t[i].state, h[t[i].node])
  /\ \A i \in 1..Len(t) : \A j \in i..Len(t) : t[i].isNew => t[j].isNew

UpdateShape(h, bits) ==
  \A bit \in Bits : \E r \in {update(h, bits, bit)} :
     SnapshotShape(h, bits, r.heap, r.traversed)

KeptShape(t) ==
  /\ Len(t) = Depth + 1
  /\ ~t[1].isNew
  /\ \A i \in 1..Len(t) : \A j \in i..Len(t) : t[i].isNew => t[j].isNew

C14_SnapshotListShape ==
  /\ kind \in {"CTW", "VOM"} =>
        /\ UpdateShape(model.Root, arr[model.Bits])
        /\ (op = "CTW.Observe" /\ status = "ok") => KeptShape(trav)
        /\ \A i \in 1..Len(cr.traversals) : KeptShape(cr.traversals[i])
  /\ kind = "FCTW" =>
        \A i \in 1..Len(fctw.Trees) :
           UpdateShape(fctw.Trees[i].Root, arr[fctw.Trees[i].Bits])

\* an Observe returned a list whose second snapshot is of an existing node
\* and whose last is of a node the update allocated
C14_Witness ==
  /\ op = "CTW.Observe" /\ status = "ok"
  /\ Depth = MaxD
  /\ Len(trav) = Depth + 1
  /\ ~trav[2].isNew
  /\ trav[2].state.A + trav[2].state.B > 0
  /\ trav[Len(trav)].isNew


\* ---------------------------------------------------------------------
\* C15: weighted-probability invariant.  In every state reachable through
\* Observe, Prob0 and the Reverter's Observe and Unobserve, every attached
\* node has l_w = l_kt when it has no children, and otherwise
\* l_w = logaddexp(log(1/2) + l_kt, log(1/2) + l_w(child0) + l_w(child1)),
\* an absent child contributing 0; nodes off the last update's path and
\* nodes restored by revert included.
childLogProb(h, ptr) ==
  IF ptr = Nil THEN Zero ELSE h[ptr].LogProb

Weighted(h, node) ==
  IF h[node].Left = Nil /\ h[node].Right = Nil
    THEN h[node].LogProb = h[node].Lktp
    ELSE h[node].LogProb =
           logaddexp(plus(Log(1, 2), h[node].Lktp),
                     plus(plus(Log(1, 2), childLogProb(h, h[node].Right)),
                          childLogProb(h, h[node].Left)))

WeightedTree(h) ==
  \A node \in Attached(h, <<>>) : Weighted(h, node)

C15_WeightedEveryNode ==
  /\ WeightedTree(model.Root)
  /\ \A i \in 1..Len(fctw.Trees) : WeightedTree(fctw.Trees[i].Root)

\* Unobserve restored a tree in which a node mixes over two children
C15_Witness ==
  /\ op = "CTWReverter.Unobserve" /\ status = "ok"
  /\ cr.traversals # <<>>
  /\ \E node \in Attached(model.Root, <<>>) :
        /\ model.Root[node].Left # Nil
        /\ model.Root[node].Right # Nil
        /\ model.Root[node].LogProb # model.Root[node].Lktp
        /\ Weighted(model.Root, node)


\* ---------------------------------------------------------------------
\* C16: LIFO partial unwind.  For a CTWReverter over a CTW with D >= 1,
\* after Observe(b1) .. Observe(bn) followed by k <= n Unobserve calls, with
\* Prob0 calls anywhere in between, the wrapped model (tree and context
\* bits) is the one that CTW.Observe(b1) .. CTW.Observe(b(n-k)) alone
\* produces from the state the Reverter started on, and the Reverter holds
\* exactly n - k frames.
\* CTW.Observe(bs[i]) .. CTW.Observe(bs[Len(bs)]) on a model of its own
RECURSIVE replay(_, _, _, _)
replayed(r, bs, i) ==
  replay(r.Root, r.arr["own"], bs, i + 1)

replay(root, ctx, bs, i) ==
  IF i > Len(bs)
    THEN [Root |-> root, Bits |-> ctx]
    ELSE replayed(observe([Bits |-> "own", Root |-> root],
                          [a \in {"own"} |-> ctx], bs[i]), bs, i)

ReverterOps == {"CTWReverter.Observe", "CTWReverter.Unobserve", "CTWReverter.Prob0"}

UnwoundTo(start, frames) ==
  /\ [Root |-> model'.Root, Bits |-> arr'[model.Bits]]
       = replay(start.Root, start.Bits, LastN(stream', frames), 1)
  /\ Len(cr'.traversals) = frames
  /\ Len(cr'.bits) = frames

RECURSIVE EndsInLeaves(_, _)
EndsInLeaves(v, internal) ==
  \/ v.Leaf
  \/ /\ internal > 0
     /\ v.Child0 # <<>>
     /\ v.Child1 # <<>>
     /\ EndsInLeaves(v.Child0[1], internal - 1)
     /\ EndsInLeaves(v.Child1[1], internal - 1)

\* <<CondProb0>> of the first leaf the context bits lead to from ptr within
\* Len(bits) - d steps, <<>> if there is none
RECURSIVE leafOnPath(_, _, _)
leafOnPath(ptr, bits, d) ==
  IF ptr = <<>> THEN <<>>
  ELSE IF ptr[1].Leaf THEN <<ptr[1].CondProb0>>
  ELSE IF d >= Len(bits) THEN <<>>
  ELSE leafOnPath(IF bits[Len(bits) - d] = 0 THEN ptr[1].Child0 ELSE ptr[1].Child1,
                  bits, d + 1)

ReturnsFirstLeaf(r, leaf) ==
  /\ r.status = "ok"
  /\ leaf = <<r.value>>
  /\ StrictlyBetween0And1(r.value)

C17_VOMEndsAtLeaf ==
  vom # <<>> =>
    /\ EndsInLeaves(vom[1].Root[1], Len(arr[vom[1].Bits]))
    /\ \A bits \in [1..Len(arr[vom[1].Bits]) -> Args] :
          ReturnsFirstLeaf(vomDescend(vom[1].Root, bits, 0),
                           leafOnPath(vom[1].Root, bits, 0))
    /\ op = "VOM.Prob0" =>
          /\ status = "ok"
          /\ <<ret>> = leafOnPath(vom[1].Root, arr[vom[1].Bits], 0)

\* Prob0 on a VOM with an internal root, after the VOM observed a bit
C17_Witness ==
  /\ vom # <<>>
  /\ op = "VOM.Prob0" /\ status = "ok"
  /\ ~vom[1].Root[1].Leaf
  /\ Len(vstream) > Len(arr[vom[1].Bits])
  /\ ret # <<1, 2>>


\* ---------------------------------------------------------------------
\* C18: lazy allocation is monotonic and depth-bounded.  Across CTW.Observe
\* and CTW.Prob0 calls the set of attached nodes never loses a node; each
\* Observe attaches at most D new nodes, all of them on the path the current
\* context selects; Prob0 attaches none; and no node is attached at a depth
\* greater than D.
\* the d most recent context bits, most recent first
mostRecentFirst(bits, d) ==
  [j \in 1..d |-> bits[Len(bits) - j + 1]]

\* the nodes of tree h the context bits select, root to depth Len(bits)
ContextPath(h, bits) ==
  {ctxNode(h, <<>>, mostRecentFirst(bits, d), 1) : d \in 0..Len(bits)}

Grows(before, after, bits, most) ==
  /\ before \subseteq after
  /\ Cardinality(after \ before) <= most
  /\ (after \ before) \subseteq ContextPath(model'.Root, bits)
  /\ \A n \in after : Len(n) <= Len(bits)

C18_LazyAllocation ==
  [][/\ op' = "CTW.Observe" =>
          Grows(Attached(model.Root, <<>>), Attached(model'.Root, <<>>),
                arr[model.Bits], Len(arr[model.Bits]))
     /\ op' = "CTW.Prob0" =>
          Grows(Attached(model.Root, <<>>), Attached(model'.Root, <<>>),
                arr[model.Bits], 0)]_vars

\* an Observe attached a node to a tree that keeps nodes off its path
C18_Witness ==
  /\ op = "CTW.Observe" /\ status = "ok"
  /\ Depth = MaxD
  /\ Len(trav) = Depth + 1
  /\ trav[Len(trav)].isNew
  /\ Cardinality(Attached(model.Root, <<>>)) > Depth + 2


\* ---------------------------------------------------------------------
\* C19: totality on well-formed inputs.  For every depth D >= 0, the empty
\* context D = 0 included, and every bit in {0, 1}, CTW.Prob0 and
\* CTW.Observe complete normally, without abort or panic.  (That equal
\* states and equal operations give equal states holds of update and observe
\* as of any operator.)  CTW.observe writes model.Bits[len(model.Bits)-1]
\* after the update, so with D = 0 Observe panics with the root already
\* updated.
C19_TotalOnWellFormedInputs ==
  (op \in {"CTW.Prob0", "CTW.Observe"} /\ arg \in Bits) => status = "ok"

====
